---- MODULE Spec2Model ----
(***************************************************************************)
(* A model of website_audit.py: the same-host crawler (crawl_site), the   *)
(* wave-based load generator (run_load_test), the result summarizer       *)
(* (summarize_load_results) and the autoscale heuristic (auto_scale).      *)
(*                                                                         *)
(* Elapsed times are kept in integer milliseconds: the program rounds     *)
(* every elapsed time to 3 decimals (round(..., 3)), so a time t seconds  *)
(* is the integer 1000*t.                                                  *)
(***************************************************************************)
EXTENDS Integers, Sequences, FiniteSets

(***************************************************************************)
(* Bounds of the model.                                                    *)
(***************************************************************************)
MaxPages == 4        \* largest max_pages a crawl is called with
MaxLinks == 2        \* most <a href> elements on one fetched page
MaxErrors == 2       \* most requests of one load test that raise

(***************************************************************************)
(* URLs.  A URL is what urlparse sees in it: the netloc, the path and the *)
(* fragment (NoFrag when the string holds no '#').                         *)
(***************************************************************************)
Hosts == {"a.com", "b.org"}
Paths == {"/", "/p1", "/p2"}
NoFrag == "<none>"
Frags == {"top"}

URLs == [host : Hosts, path : Paths, frag : Frags \cup {NoFrag}]

\* The values of an href attribute: an absolute URL, a path on the page's
\* host, a bare "#fragment", and the empty string.
Hrefs ==
    [kind : {"abs"}, host : Hosts, path : Paths, frag : Frags \cup {NoFrag}]
        \cup [kind : {"rel"}, path : Paths, frag : Frags \cup {NoFrag}]
        \cup [kind : {"frag"}, frag : Frags]
        \cup [kind : {"empty"}]

\* urljoin(url, a["href"])
urljoin(base, href) ==
    CASE href.kind = "abs" ->
            [host |-> href.host, path |-> href.path, frag |-> href.frag]
      [] href.kind = "rel" ->
            [host |-> base.host, path |-> href.path, frag |-> href.frag]
      [] href.kind = "frag" ->
            [host |-> base.host, path |-> base.path, frag |-> href.frag]
      [] OTHER -> base

\* link.split('#')[0]: everything before the first '#'
SplitFragment(link) == [link EXCEPT !.frag = NoFrag]

\* urlparse(u).netloc
netloc(u) == u.host

\* Sequences over S of length at most n
SeqUpTo(S, n) == UNION {[1..k -> S] : k \in 0..n}

InSeq(x, s) == \E i \in 1..Len(s) : s[i] = x

Range(s) == {s[i] : i \in 1..Len(s)}

VARIABLES
    crawl_pc,     \* position of crawl_site: idle, loop, audit, extract, done
    start_url,    \* crawl_site's argument
    max_pages,    \* crawl_site's argument
    visited,      \* set of URLs
    queue,        \* the frontier, a FIFO list of URLs
    results,      \* list of audit records
    url,          \* the URL being processed
    r,            \* status of the last response of the link-extraction fetch
    anchors,      \* anchors of the current page already looped over
    found         \* history: for every URL that passed the same-host test
                  \* of an anchor loop, and for start_url, the page it was
                  \* read on and the fewest links that lead to it from
                  \* start_url over the anchors read so far

crawl_vars == <<crawl_pc, start_url, max_pages, visited, queue, results, url,
                r, anchors, found>>

VARIABLES
    load_pc,      \* position of run_load_test: idle, loop, submit, collect, done
    users,        \* run_load_test's argument
    remaining,    \* requests not yet assigned to a wave
    wave,         \* size of the current wave
    futs,         \* number of futures submitted in the current wave
    yielded,      \* number of futures as_completed has handed out in this wave
    inflight,     \* workers that were started and have not returned
    finished,     \* samples of returned workers not yet collected, by kind
    load_results, \* the samples collected so far, by kind
    wave_sizes    \* the sizes of the waves started so far

load_vars == <<load_pc, users, remaining, wave, futs, yielded, inflight,
               finished, load_results, wave_sizes>>

VARIABLES
    summ_pc,      \* position of summarize_load_results: ready, done
    samples,      \* its argument, the list of load samples
    summary       \* the dict it returns

summ_vars == <<summ_pc, samples, summary>>

VARIABLES
    scale_pc,     \* position of auto_scale: ready, done
    avg_time,     \* auto_scale's argument, None or a time
    target,       \* auto_scale's argument
    load_summary, \* auto_scale's argument: the total, success, failures read
    scaled        \* the dict it returns

scale_vars == <<scale_pc, avg_time, target, load_summary, scaled>>

VARIABLES
    audit_pc,     \* position of analyze_page: ready, done
    page_url,     \* analyze_page's argument
    fetch_outcome,\* what requests.get does for it: a response or an exception
    result        \* the dict analyze_page returns

audit_vars == <<audit_pc, page_url, fetch_outcome, result>>

VARIABLES
    rec_pc,       \* position of build_recommendations: ready, built, done
    audit_results,\* its argument, the list of audit records
    recs,         \* its local list of advisories, before the dedupe
    deduped       \* the list it returns

rec_vars == <<rec_pc, audit_results, recs, deduped>>

vars == <<crawl_vars, load_vars, summ_vars, scale_vars, audit_vars, rec_vars>>

\* The two kinds of sample fetch_once returns: {"status": resp.status_code,
\* "time": t} and {"status": "Error", "time": None}.  The workers of a wave
\* are interchangeable, so a collection of samples is kept as the number of
\* samples of each kind.
SampleKinds == {"response", "error"}
NoSamples == [k \in SampleKinds |-> 0]
Count(bag) == bag["response"] + bag["error"]
AddSample(bag, k) == [bag EXCEPT ![k] = @ + 1]
RemoveSample(bag, k) == [bag EXCEPT ![k] = @ - 1]

\* An optional value: None is the empty sequence, a value v is <<v>>.
None == <<>>
Some(v) == <<v>>
ValueOf(opt) == opt[1]

\* A Counter with no key
EmptyCounter == [k \in {} |-> 0]

NoSummary ==
    [total |-> 0, success |-> 0, failures |-> 0, avg |-> None, p95 |-> None,
     histogram |-> EmptyCounter]

\* The latency target run_audit passes to auto_scale, 1.5 s
TARGET == 1500

NoScaled == [servers |-> 0, scaled_avg |-> None, processed |-> 0, failed |-> 0]

NoUrl == [host |-> "", path |-> "", frag |-> NoFrag]

CrawlIdle ==
    /\ crawl_pc = "idle"
    /\ start_url = NoUrl
    /\ max_pages = 0
    /\ visited = {}
    /\ queue = <<>>
    /\ results = <<>>
    /\ url = NoUrl
    /\ r = "<none>"
    /\ anchors = 0
    /\ found = <<>>

LoadIdle ==
    /\ load_pc = "idle"
    /\ users = 0
    /\ remaining = 0
    /\ wave = 0
    /\ futs = 0
    /\ yielded = 0
    /\ inflight = 0
    /\ finished = NoSamples
    /\ load_results = NoSamples
    /\ wave_sizes = <<>>

SummIdle ==
    /\ summ_pc = "ready"
    /\ samples = <<>>
    /\ summary = NoSummary

ScaleIdle ==
    /\ scale_pc = "ready"
    /\ avg_time = None
    /\ target = TARGET
    /\ load_summary = [total |-> 0, success |-> 0, failures |-> 0]
    /\ scaled = NoScaled

NoPageUrl == [prefix |-> "", rest |-> ""]

NoOutcome == [kind |-> "none"]

NoResult ==
    [url |-> NoPageUrl, status |-> "<none>", load_time |-> None,
     security |-> <<>>, seo |-> <<>>, accessibility |-> <<>>,
     error |-> "<none>"]

AuditIdle ==
    /\ audit_pc = "ready"
    /\ page_url = NoPageUrl
    /\ fetch_outcome = NoOutcome
    /\ result = NoResult

RecIdle ==
    /\ rec_pc = "ready"
    /\ audit_results = <<>>
    /\ recs = <<>>
    /\ deduped = <<>>

\* The module is loaded and no function has been called yet.
Init ==
    CrawlIdle /\ LoadIdle /\ SummIdle /\ ScaleIdle /\ AuditIdle /\ RecIdle

(***************************************************************************)
(* crawl_site                                                              *)
(***************************************************************************)

\* A status is r.status_code, written as its decimal text, or the marker
\* "Error" the program stores when the fetch raised.
OK == "200"
HttpStatuses == {"200", "404"}
ErrorMarker == "Error"

\* The outcomes of fetch_page(url) inside analyze_page: a response with a
\* status code, or an exception turned into an error string.  The crawl
\* never reads the code, so one code stands for all of them.
AuditStatuses == {OK, ErrorMarker}

\* analyze_page(url): the fields of the record that the crawl decides.
analyze_page(u, status) ==
    [url |-> u,
     status |-> status,
     error |-> IF status = ErrorMarker THEN "Fetch error" ELSE "<none>"]

\* crawl_site called by run_audit with max(1, min(pages, 100))
CallCrawl ==
    /\ UNCHANGED <<load_vars, summ_vars, scale_vars, audit_vars, rec_vars>>
    /\ crawl_pc = "idle"
    /\ \E u \in URLs, n \in 1..MaxPages :
        /\ start_url' = u
        /\ max_pages' = n
        /\ queue' = <<u>>
    /\ visited' = {}
    /\ results' = <<>>
    /\ crawl_pc' = "loop"
    /\ found' = [x \in {start_url'} |-> [on |-> NoUrl, level |-> 0]]
    /\ UNCHANGED <<url, r, anchors>>

\* while queue and len(visited) < max_pages
LoopCond_OffByOne == queue # <<>> /\ Cardinality(visited) <= max_pages

LoopCond == queue # <<>> /\ Cardinality(visited) < max_pages

\* queue.pop(0): what is left of the queue
Pop_KeepsHead(q) == q

Pop(q) == Tail(q)

\* url = queue.pop(0); if url in visited: continue; visited.add(url)
Dequeue ==
    /\ UNCHANGED <<load_vars, summ_vars, scale_vars, audit_vars, rec_vars>>
    /\ crawl_pc = "loop"
    /\ LoopCond
    /\ url' = Head(queue)
    /\ queue' = Pop(queue)
    /\ IF Head(queue) \in visited
         THEN /\ visited' = visited
              /\ crawl_pc' = "loop"
         ELSE /\ visited' = visited \cup {Head(queue)}
              /\ crawl_pc' = "audit"
    /\ UNCHANGED <<start_url, max_pages, results, r, anchors, found>>

\* res = analyze_page(url); results.append(res)
Audit ==
    /\ UNCHANGED <<load_vars, summ_vars, scale_vars, audit_vars, rec_vars>>
    /\ crawl_pc = "audit"
    /\ \E st \in AuditStatuses :
        results' = Append(results, analyze_page(url, st))
    /\ crawl_pc' = "extract"
    /\ UNCHANGED <<start_url, max_pages, visited, queue, url, r, anchors,
                   found>>

\* if urlparse(link).netloc == urlparse(start_url).netloc
SameHost_Any(link, start) == TRUE

SameHost(link, start) == netloc(link) = netloc(start)

\* link = urljoin(url, a["href"]); link = link.split('#')[0]
Link(cur, href) == SplitFragment(urljoin(cur, href))

\* The history after the anchor loop of page cur has read link: one link
\* further from start_url than cur, unless a shorter way was read before.
Read(f, cur, link) ==
    IF link \in DOMAIN f /\ f[link].level <= f[cur].level + 1
      THEN f
      ELSE [x \in DOMAIN f \cup {link} |->
               IF x = link THEN [on |-> cur, level |-> f[cur].level + 1]
                           ELSE f[x]]

EnqueueOne_NoQueueTest(q, href, cur, start, vis) ==
    LET link == SplitFragment(urljoin(cur, href))
    IN  IF SameHost(link, start) /\ link \notin vis
          THEN Append(q, link)
          ELSE q

EnqueueOne_AtFront(q, href, cur, start, vis) ==
    LET link == SplitFragment(urljoin(cur, href))
    IN  IF SameHost(link, start) /\ link \notin vis /\ ~InSeq(link, q)
          THEN <<link>> \o q
          ELSE q

\* The body of "for a in soup.find_all('a', href=True)" for one anchor
EnqueueOne(q, href, cur, start, vis) ==
    LET link == SplitFragment(urljoin(cur, href))
    IN  IF SameHost(link, start) /\ link \notin vis /\ ~InSeq(link, q)
          THEN Append(q, link)
          ELSE q

ExtractLinks_AnyStatus ==
    /\ UNCHANGED <<load_vars, summ_vars, scale_vars, audit_vars, rec_vars>>
    /\ crawl_pc = "extract"
    /\ \E st \in HttpStatuses : r' = st
    /\ anchors' = 0
    /\ crawl_pc' = "links"
    /\ UNCHANGED <<start_url, max_pages, visited, queue, results, url,
                   found>>

\* The second fetch of the page, requests.get(url, ...), answered 200: the
\* page is parsed and the loop over its anchors begins.
ExtractLinks ==
    /\ UNCHANGED <<load_vars, summ_vars, scale_vars, audit_vars, rec_vars>>
    /\ crawl_pc = "extract"
    /\ r' = OK
    /\ anchors' = 0
    /\ crawl_pc' = "links"
    /\ UNCHANGED <<start_url, max_pages, visited, queue, results, url,
                   found>>

\* One pass of "for a in soup.find_all('a', href=True)": the next anchor of
\* the page, whatever its href is.
FollowLink ==
    /\ UNCHANGED <<load_vars, summ_vars, scale_vars, audit_vars, rec_vars>>
    /\ crawl_pc = "links"
    /\ anchors < MaxLinks
    /\ \E href \in Hrefs :
        /\ queue' = EnqueueOne(queue, href, url, start_url, visited)
        /\ found' = IF SameHost(Link(url, href), start_url)
                      THEN Read(found, url, Link(url, href))
                      ELSE found
    /\ anchors' = anchors + 1
    /\ UNCHANGED <<crawl_pc, start_url, max_pages, visited, results, url, r>>

\* The page has no further anchor: back to the while loop.
LinksDone ==
    /\ UNCHANGED <<load_vars, summ_vars, scale_vars, audit_vars, rec_vars>>
    /\ crawl_pc = "links"
    /\ crawl_pc' = "loop"
    /\ UNCHANGED <<start_url, max_pages, visited, queue, results, url, r,
                   anchors, found>>

\* The second fetch answered with another status: if r.status_code != 200:
\* continue
ExtractNot200 ==
    /\ UNCHANGED <<load_vars, summ_vars, scale_vars, audit_vars, rec_vars>>
    /\ crawl_pc = "extract"
    /\ \E st \in HttpStatuses \ {OK} : r' = st
    /\ crawl_pc' = "loop"
    /\ UNCHANGED <<start_url, max_pages, visited, queue, results, url, anchors,
                   found>>

\* The second fetch raised: except Exception: print(...); continue.  The
\* local r keeps the response of an earlier pass.
ExtractRaises_Propagates ==
    /\ UNCHANGED <<load_vars, summ_vars, scale_vars, audit_vars, rec_vars>>
    /\ crawl_pc = "extract"
    /\ crawl_pc' = "done"
    /\ UNCHANGED <<start_url, max_pages, visited, queue, results, url, r,
                   anchors, found>>

ExtractRaises ==
    /\ UNCHANGED <<load_vars, summ_vars, scale_vars, audit_vars, rec_vars>>
    /\ crawl_pc = "extract"
    /\ crawl_pc' = "loop"
    /\ UNCHANGED <<start_url, max_pages, visited, queue, results, url, r,
                   anchors, found>>

\* return results
CrawlReturn ==
    /\ UNCHANGED <<load_vars, summ_vars, scale_vars, audit_vars, rec_vars>>
    /\ crawl_pc = "loop"
    /\ ~LoopCond
    /\ crawl_pc' = "done"
    /\ UNCHANGED <<start_url, max_pages, visited, queue, results, url, r,
                   anchors, found>>

CrawlNext ==
    \/ CallCrawl
    \/ Dequeue
    \/ Audit
    \/ ExtractLinks
    \/ FollowLink
    \/ LinksDone
    \/ ExtractNot200
    \/ ExtractRaises
    \/ CrawlReturn

SpecCrawl == Init /\ [][CrawlNext]_vars

\* The crawl is one sequential thread that is never cancelled: it takes its
\* next step whenever it has one.
FairSpecCrawl == Init /\ [][CrawlNext]_vars /\ WF_vars(CrawlNext)

(***************************************************************************)
(* run_load_test                                                           *)
(***************************************************************************)
batch_size == 300

\* The user counts run_load_test is called with
UserCounts == {1, 2, 301, 700}

Min(a, b) == IF a < b THEN a ELSE b

\* run_load_test(url, users)
CallLoadTest ==
    /\ load_pc = "idle"
    /\ \E n \in UserCounts :
        /\ users' = n
        /\ remaining' = n
    /\ load_results' = NoSamples
    /\ load_pc' = "loop"
    /\ UNCHANGED <<wave, futs, yielded, inflight, finished, wave_sizes>>
    /\ UNCHANGED <<crawl_vars, summ_vars, scale_vars, audit_vars, rec_vars>>

\* while remaining > 0
MoreWaves_FullOnly == remaining >= batch_size

MoreWaves == remaining > 0

\* wave = min(batch_size, remaining)
WaveSize_Uncapped(rem) == rem

WaveSize(rem) == Min(batch_size, rem)

\* The head of a pass of the while loop: the wave's size and its executor
StartWave ==
    /\ load_pc = "loop"
    /\ MoreWaves
    /\ wave' = WaveSize(remaining)
    /\ wave_sizes' = Append(wave_sizes, WaveSize(remaining))
    /\ futs' = 0
    /\ yielded' = 0
    /\ load_pc' = "submit"
    /\ UNCHANGED <<users, remaining, inflight, finished, load_results>>
    /\ UNCHANGED <<crawl_vars, summ_vars, scale_vars, audit_vars, rec_vars>>

\* One ex.submit(fetch_once, sess, url) of the list comprehension.  The pool
\* has max_workers = wave threads, so the task is handed to a thread of its
\* own at once; the worker counts as in flight from here on.
Submit ==
    /\ load_pc = "submit"
    /\ futs < wave
    /\ futs' = futs + 1
    /\ inflight' = inflight + 1
    /\ load_pc' = IF futs + 1 = wave THEN "collect" ELSE "submit"
    /\ UNCHANGED <<users, remaining, wave, yielded, finished, load_results,
                   wave_sizes>>
    /\ UNCHANGED <<crawl_vars, summ_vars, scale_vars, audit_vars, rec_vars>>

\* A worker's fetch_once returns {"status": resp.status_code, "time": t}
WorkerResponds ==
    /\ inflight > 0
    /\ inflight' = inflight - 1
    /\ finished' = AddSample(finished, "response")
    /\ UNCHANGED <<load_pc, users, remaining, wave, futs, yielded,
                   load_results, wave_sizes>>
    /\ UNCHANGED <<crawl_vars, summ_vars, scale_vars, audit_vars, rec_vars>>

\* A worker's session.get raises: fetch_once returns {"status": "Error",
\* "time": None}
WorkerFails ==
    /\ inflight > 0
    /\ finished["error"] + load_results["error"] < MaxErrors
    /\ inflight' = inflight - 1
    /\ finished' = AddSample(finished, "error")
    /\ UNCHANGED <<load_pc, users, remaining, wave, futs, yielded,
                   load_results, wave_sizes>>
    /\ UNCHANGED <<crawl_vars, summ_vars, scale_vars, audit_vars, rec_vars>>

\* One pass of "for f in as_completed(futs): results.append(f.result())":
\* as_completed hands out a future that is done
Collect ==
    /\ load_pc = "collect"
    /\ \E k \in SampleKinds :
        /\ finished[k] > 0
        /\ finished' = RemoveSample(finished, k)
        /\ load_results' = AddSample(load_results, k)
    /\ yielded' = yielded + 1
    /\ UNCHANGED <<load_pc, users, remaining, wave, futs, inflight,
                   wave_sizes>>
    /\ UNCHANGED <<crawl_vars, summ_vars, scale_vars, audit_vars, rec_vars>>

\* as_completed(futs) is exhausted when it has handed out every future
AllYielded_First == yielded >= 1

AllYielded == yielded = futs

\* The for loop ends, the with block shuts the executor down, which joins
\* its threads (shutdown(wait=True)), and remaining -= wave
EndWave ==
    /\ load_pc = "collect"
    /\ AllYielded
    /\ inflight = 0
    /\ remaining' = remaining - wave
    /\ load_pc' = "loop"
    /\ UNCHANGED <<users, wave, futs, yielded, inflight, finished,
                   load_results, wave_sizes>>
    /\ UNCHANGED <<crawl_vars, summ_vars, scale_vars, audit_vars, rec_vars>>

\* return results
LoadReturn ==
    /\ load_pc = "loop"
    /\ ~MoreWaves
    /\ load_pc' = "done"
    /\ UNCHANGED <<users, remaining, wave, futs, yielded, inflight, finished,
                   load_results, wave_sizes>>
    /\ UNCHANGED <<crawl_vars, summ_vars, scale_vars, audit_vars, rec_vars>>

LoadNext ==
    \/ CallLoadTest
    \/ StartWave
    \/ Submit
    \/ WorkerResponds
    \/ WorkerFails
    \/ Collect
    \/ EndWave
    \/ LoadReturn

SpecLoad == Init /\ [][LoadNext]_vars

(***************************************************************************)
(* summarize_load_results                                                  *)
(***************************************************************************)
MaxSamples == 3      \* longest list of samples summarized

\* Elapsed times of the samples, in milliseconds
Times == {0, 120, 150, 270, 1005}

\* What fetch_once returns: a status code with a time, or Error with None
SampleValues ==
    [status : HttpStatuses, time : {Some(t) : t \in Times}]
        \cup {[status |-> ErrorMarker, time |-> None]}

\* sum(1 for r in results if r["status"] == 200)
RECURSIVE SuccessCount_NotError(_)
SuccessCount_NotError(rs) ==
    IF rs = <<>>
      THEN 0
      ELSE (IF Head(rs).status # ErrorMarker THEN 1 ELSE 0)
              + SuccessCount_NotError(Tail(rs))

RECURSIVE SuccessCount(_)
SuccessCount(rs) ==
    IF rs = <<>>
      THEN 0
      ELSE (IF Head(rs).status = OK THEN 1 ELSE 0) + SuccessCount(Tail(rs))

\* [r["time"] for r in results if r["time"] is not None]
RECURSIVE TimesOf(_)
TimesOf(rs) ==
    IF rs = <<>>
      THEN <<>>
      ELSE IF Head(rs).time # None
             THEN <<ValueOf(Head(rs).time)>> \o TimesOf(Tail(rs))
             ELSE TimesOf(Tail(rs))

RECURSIVE Sum(_)
Sum(ts) == IF ts = <<>> THEN 0 ELSE Head(ts) + Sum(Tail(ts))

\* round(num / den, 3) of times in seconds, for num >= 0 and den > 0 in
\* milliseconds: the nearest whole millisecond.  When num / den lies exactly
\* halfway between two, which one Python returns depends on the binary
\* floating-point value of the quotient, so both are possible.
Round3(num, den) ==
    LET q == num \div den
        rem == num % den
    IN  IF 2 * rem < den THEN {q}
        ELSE IF 2 * rem > den THEN {q + 1}
        ELSE {q, q + 1}

\* sorted(times): insertion of one element into a sorted list
RECURSIVE Insert(_, _)
Insert(x, ts) ==
    IF ts = <<>> THEN <<x>>
    ELSE IF x <= Head(ts) THEN <<x>> \o ts
    ELSE <<Head(ts)>> \o Insert(x, Tail(ts))

RECURSIVE sorted(_)
sorted(ts) == IF ts = <<>> THEN <<>> ELSE Insert(Head(ts), sorted(Tail(ts)))

\* idx = int(0.95 * (len(s) - 1)); p95 = s[idx], with s indexed from 0
P95_OfLength(ts) ==
    IF ts = <<>>
      THEN None
      ELSE Some(sorted(ts)[((95 * Len(ts)) \div 100) + 1])

P95(ts) ==
    IF ts = <<>>
      THEN None
      ELSE Some(sorted(ts)[((95 * (Len(ts) - 1)) \div 100) + 1])

\* int((t or 0) * 10) / 10: the key of the 0.1 s bucket of t, in milliseconds
Bucket_Nearest(t) == ((t + 50) \div 100) * 100

Bucket(t) == (t \div 100) * 100

\* Counter(...): one more occurrence of key k
CounterAdd(c, k) ==
    [x \in DOMAIN c \cup {k} |->
        IF x = k THEN (IF k \in DOMAIN c THEN c[k] + 1 ELSE 1) ELSE c[x]]

\* Counter(int((t or 0) * 10) / 10 for t in times)
RECURSIVE Histogram(_)
Histogram(ts) ==
    IF ts = <<>>
      THEN EmptyCounter
      ELSE CounterAdd(Histogram(SubSeq(ts, 1, Len(ts) - 1)),
                      Bucket(ts[Len(ts)]))

\* The dicts summarize_load_results(results) can return
summarize_load_results(rs) ==
    LET total == Len(rs)
        success == SuccessCount(rs)
        times == TimesOf(rs)
        avgs == IF times = <<>>
                  THEN {None}
                  ELSE {Some(a) : a \in Round3(Sum(times), Len(times))}
    IN  {[total |-> total,
          success |-> success,
          failures |-> total - success,
          avg |-> avg,
          p95 |-> P95(times),
          histogram |-> Histogram(times)] : avg \in avgs}

\* The call summarize_load_results(samples)
Summarize ==
    /\ summ_pc = "ready"
    /\ summary' \in summarize_load_results(samples)
    /\ summ_pc' = "done"
    /\ UNCHANGED samples
    /\ UNCHANGED <<crawl_vars, load_vars, scale_vars, audit_vars, rec_vars>>

\* Any list of at most MaxSamples samples is summarized
InitSummary ==
    /\ CrawlIdle /\ LoadIdle /\ ScaleIdle /\ AuditIdle /\ RecIdle
    /\ summ_pc = "ready"
    /\ samples \in SeqUpTo(SampleValues, MaxSamples)
    /\ summary = NoSummary

SpecSummary == InitSummary /\ [][Summarize]_vars

MaxTimed == 5        \* longest list of samples whose times are summarized

\* Elapsed times of whole seconds, and of one millisecond
SecondTimes == {1, 1000, 2000, 3000, 4000, 5000}

TimedSampleValues ==
    [status : {OK}, time : {Some(t) : t \in SecondTimes}]
        \cup {[status |-> ErrorMarker, time |-> None]}

\* Any list of at most MaxTimed samples is summarized
InitSummaryTimed ==
    /\ CrawlIdle /\ LoadIdle /\ ScaleIdle /\ AuditIdle /\ RecIdle
    /\ summ_pc = "ready"
    /\ samples \in SeqUpTo(TimedSampleValues, MaxTimed)
    /\ summary = NoSummary

SpecSummaryTimed == InitSummaryTimed /\ [][Summarize]_vars

(***************************************************************************)
(* auto_scale                                                              *)
(***************************************************************************)
MaxCount == 2        \* largest total, success or failures of a summary

\* The avg_time values auto_scale is called with: None, negative, zero and
\* positive times in milliseconds
AvgTimes ==
    {None} \cup {Some(t) : t \in {-500, 0, 1, 1499, 1500, 1501, 3000, 4500, 7000}}

\* The positive targets, in milliseconds.  For every avg_time above and
\* every target here the floating-point quotient avg_time / target has the
\* ceiling of the exact quotient.
Targets == {1, 1000, TARGET}

Max(a, b) == IF a > b THEN a ELSE b

\* The (avg_time, target), in milliseconds, whose exact quotient is a whole
\* number n while the quotient of the two doubles is above n: 2.1 / 0.3 is
\* 7.000000000000001, 2.7 / 0.3 is 9.000000000000002 and 4.2 / 0.3 is
\* 14.000000000000002.
RoundedUpQuotients == {<<2100, 300>>, <<2700, 300>>, <<4200, 300>>}

\* math.ceil(a / b) for a > 0 and b > 0: the ceiling of the quotient of the
\* doubles, which is the ceiling of the exact quotient but for the pairs
\* above.
Ceil(a, b) ==
    ((a + b - 1) \div b) + (IF <<a, b>> \in RoundedUpQuotients THEN 1 ELSE 0)

\* servers = max(1, math.ceil(avg_time / target))
Servers_FloorPlusOne(avg, tgt) == Max(1, (avg \div tgt) + 1)

Servers(avg, tgt) == Max(1, Ceil(avg, tgt))

\* The dicts auto_scale(avg_time, target, load_summary) can return
auto_scale_ZeroServers(avg, tgt, ls) ==
    IF avg = None \/ ValueOf(avg) <= 0
      THEN {[servers |-> 0,
             scaled_avg |-> avg,
             processed |-> ls.success,
             failed |-> ls.failures]}
      ELSE {[servers |-> Servers(ValueOf(avg), tgt),
             scaled_avg |-> Some(sa),
             processed |-> ls.total,
             failed |-> 0] :
                sa \in Round3(ValueOf(avg), Servers(ValueOf(avg), tgt))}

auto_scale_KeepsFailures(avg, tgt, ls) ==
    IF avg = None \/ ValueOf(avg) <= 0
      THEN {[servers |-> 1,
             scaled_avg |-> avg,
             processed |-> ls.success,
             failed |-> ls.failures]}
      ELSE {[servers |-> Servers(ValueOf(avg), tgt),
             scaled_avg |-> Some(sa),
             processed |-> ls.total,
             failed |-> ls.failures] :
                sa \in Round3(ValueOf(avg), Servers(ValueOf(avg), tgt))}

auto_scale(avg, tgt, ls) ==
    IF avg = None \/ ValueOf(avg) <= 0
      THEN {[servers |-> 1,
             scaled_avg |-> avg,
             processed |-> ls.success,
             failed |-> ls.failures]}
      ELSE {[servers |-> Servers(ValueOf(avg), tgt),
             scaled_avg |-> Some(sa),
             processed |-> ls.total,
             failed |-> 0] :
                sa \in Round3(ValueOf(avg), Servers(ValueOf(avg), tgt))}

\* The call auto_scale(avg_time, target, load_summary)
AutoScale ==
    /\ scale_pc = "ready"
    /\ scaled' \in auto_scale(avg_time, target, load_summary)
    /\ scale_pc' = "done"
    /\ UNCHANGED <<avg_time, target, load_summary>>
    /\ UNCHANGED <<crawl_vars, load_vars, summ_vars, audit_vars, rec_vars>>

\* Any avg_time, any positive target and any counts of a summary
InitScale ==
    /\ CrawlIdle /\ LoadIdle /\ SummIdle /\ AuditIdle /\ RecIdle
    /\ scale_pc = "ready"
    /\ avg_time \in AvgTimes
    /\ target \in Targets
    /\ load_summary \in
          [total : 0..MaxCount, success : 0..MaxCount, failures : 0..MaxCount]
    /\ scaled = NoScaled

SpecScale == InitScale /\ [][AutoScale]_vars

\* Positive averages around the multiples of a 0.3 s target
FineAvgTimes ==
    {Some(t) : t \in {1, 299, 300, 301, 600, 1800, 2100, 2700, 4200}}

FineTargets == {300}

\* auto_scale called with a positive avg_time and a target of 0.3 s
InitScaleFine ==
    /\ CrawlIdle /\ LoadIdle /\ SummIdle /\ AuditIdle /\ RecIdle
    /\ scale_pc = "ready"
    /\ avg_time \in FineAvgTimes
    /\ target \in FineTargets
    /\ load_summary \in
          [total : 0..MaxCount, success : 0..MaxCount, failures : 0..MaxCount]
    /\ scaled = NoScaled

SpecScaleFine == InitScaleFine /\ [][AutoScale]_vars

(***************************************************************************)
(* fetch_page and analyze_page                                             *)
(***************************************************************************)
MaxImages == 2       \* most <img> elements without alt on one page

SECURITY_HEADERS ==
    <<"Content-Security-Policy", "Strict-Transport-Security",
      "X-Frame-Options", "X-Content-Type-Options">>

\* How the URL string begins.  requests lower-cases the scheme before it
\* picks its transport, so "HTTP://host/" is fetched over plain HTTP like
\* "http://host/".
Prefixes == {"http://", "https://", "HTTP://"}

PageUrls == [prefix : Prefixes, rest : {"a.com/"}]

\* urlparse(url).scheme: the scheme in lower case
Scheme(u) == IF u.prefix = "https://" THEN "https" ELSE "http"

\* url.startswith("http://"), a comparison of characters
StartsWithHttp(u) == u.prefix = "http://"

\* What requests.get(url, timeout=timeout) does: it returns a response, or
\* it raises an exception e whose str(e) may be empty.
Responses ==
    [kind : {"response"},
     status_code : HttpStatuses,
     elapsed : {120},
     headers : SUBSET Range(SECURITY_HEADERS),
     title : BOOLEAN,
     meta_description : BOOLEAN,
     h1 : BOOLEAN,
     html : {"none", "no_lang", "lang"},
     imgs_without_alt : 0..MaxImages]

Exceptions == [kind : {"raises"}, message : {"", "timed out"}]

NoResponse == [kind |-> "null"]

\* fetch_page(url): (r, elapsed, None), or (None, None, str(e))
fetch_page(outcome) ==
    IF outcome.kind = "response"
      THEN [r |-> outcome, elapsed |-> Some(outcome.elapsed), err |-> None]
      ELSE [r |-> NoResponse, elapsed |-> None, err |-> Some(outcome.message)]

\* if err or r is None: an error string that is not empty, or no response
FetchFailed(f) == (f.err # None /\ ValueOf(f.err) # "") \/ f.r = NoResponse

\* err or "Fetch error"
ErrorText_AsIs(f) == IF f.err # None THEN ValueOf(f.err) ELSE ""

ErrorText(f) ==
    IF f.err # None /\ ValueOf(f.err) # "" THEN ValueOf(f.err)
    ELSE "Fetch error"

\* for h in SECURITY_HEADERS: if h not in r.headers: append.  The finding
\* f"Missing security header: {h}" is kept as the header name h.
RECURSIVE MissingHeaders(_, _)
MissingHeaders(hs, present) ==
    IF hs = <<>>
      THEN <<>>
      ELSE (IF Head(hs) \notin present THEN <<Head(hs)>> ELSE <<>>)
              \o MissingHeaders(Tail(hs), present)

\* The security checks of a fetched page
SecurityFindings(u, resp) ==
    (IF StartsWithHttp(u) THEN <<"Site is not using HTTPS">> ELSE <<>>)
        \o MissingHeaders(SECURITY_HEADERS, resp.headers)

\* The SEO checks of a fetched page
SeoFindings(resp) ==
    (IF ~resp.title THEN <<"Missing <title> tag">> ELSE <<>>)
        \o (IF ~resp.meta_description
              THEN <<"Missing meta description">> ELSE <<>>)
        \o (IF ~resp.h1 THEN <<"Missing <h1> heading">> ELSE <<>>)

\* The accessibility checks of a fetched page; the loop over the images
\* breaks at the first one without alt
AccessibilityFindings(resp) ==
    (IF resp.html = "no_lang"
       THEN <<"<html> tag missing 'lang' attribute">> ELSE <<>>)
        \o (IF resp.imgs_without_alt > 0
              THEN <<"Image missing alt attribute">> ELSE <<>>)

\* analyze_page(url) when requests.get does `outcome`
AnalyzePage(u, outcome) ==
    LET f == fetch_page(outcome)
    IN  IF FetchFailed(f)
          THEN [url |-> u, status |-> ErrorMarker, load_time |-> None,
                security |-> <<>>, seo |-> <<>>, accessibility |-> <<>>,
                error |-> ErrorText(f)]
          ELSE [url |-> u, status |-> f.r.status_code, load_time |-> f.elapsed,
                security |-> SecurityFindings(u, f.r),
                seo |-> SeoFindings(f.r),
                accessibility |-> AccessibilityFindings(f.r),
                error |-> "<none>"]

\* The call analyze_page(page_url)
Analyze ==
    /\ audit_pc = "ready"
    /\ result' = AnalyzePage(page_url, fetch_outcome)
    /\ audit_pc' = "done"
    /\ UNCHANGED <<page_url, fetch_outcome>>
    /\ UNCHANGED <<crawl_vars, load_vars, summ_vars, scale_vars, rec_vars>>

\* Any URL, and any response or exception of requests.get
InitAudit ==
    /\ CrawlIdle /\ LoadIdle /\ SummIdle /\ ScaleIdle /\ RecIdle
    /\ audit_pc = "ready"
    /\ page_url \in PageUrls
    /\ fetch_outcome \in Responses \cup Exceptions
    /\ result = NoResult

SpecAudit == InitAudit /\ [][Analyze]_vars

(***************************************************************************)
(* build_recommendations                                                   *)
(***************************************************************************)
MaxRecords == 2      \* longest list of audit records advised on

\* An advisory: a fixed string, or the autoscale f-string with the servers
\* and scaled_avg it is formatted with.
Fixed(text) == [text |-> text, servers |-> 0, scaled_avg |-> None]

Autoscale(servers, scaled_avg) ==
    [text |-> "Autoscale to ~{servers} instances to keep mean latency ~{scaled_avg}s under load.",
     servers |-> servers, scaled_avg |-> scaled_avg]

SecurityAdvice ==
    <<Fixed("Enable HTTPS and redirect HTTP to HTTPS."),
      Fixed("Add missing headers: Content-Security-Policy, Strict-Transport-Security, X-Frame-Options, X-Content-Type-Options.")>>

SeoAdvice ==
    <<Fixed("Add a concise, unique <title> and meta description to every page."),
      Fixed("Ensure each page has exactly one <h1> that matches page intent.")>>

AccessibilityAdvice ==
    <<Fixed("Add meaningful alt text to informative images (skip decorative)."),
      Fixed("Set <html lang=...> to the primary language of the content.")>>

InfrastructureAdvice ==
    <<Fixed("Add a CDN for static assets; enable HTTP/2 and compression (gzip/brotli)."),
      Fixed("Introduce server-side caching for expensive routes; consider a reverse proxy cache."),
      Fixed("Use connection pooling for DB; add read replicas if DB bound."),
      Fixed("Implement rate limiting and a queue for bursty write operations.")>>

CapacityOkay ==
    Fixed("Current capacity looks okay; keep autoscaling rules in place for spikes.")

GeneralAdvice ==
    <<Fixed("Implement observability: SLIs/SLOs, structured logs, distributed tracing."),
      Fixed("Add automated CI checks for Lighthouse/axe-core and security headers.")>>

\* sum(len(r.get("security", [])) for r in audit_results)
RECURSIVE sec_count(_)
sec_count(ars) ==
    IF ars = <<>> THEN 0 ELSE Len(Head(ars).security) + sec_count(Tail(ars))

\* any(r.get(field) for r in audit_results)
AnyFinding(ars, field) == \E i \in 1..Len(ars) : ars[i][field] # <<>>

\* load_summary.get("avg") and load_summary["avg"] > 1.5
SlowOnAverage_AtTarget(ls) ==
    ls.avg # None /\ ValueOf(ls.avg) # 0 /\ ValueOf(ls.avg) >= TARGET

SlowOnAverage(ls) ==
    ls.avg # None /\ ValueOf(ls.avg) # 0 /\ ValueOf(ls.avg) > TARGET

\* The list recs as it stands before the dedupe
EmittedAdvice(ars, ls, sc) ==
    (IF sec_count(ars) # 0 THEN SecurityAdvice ELSE <<>>)
        \o (IF AnyFinding(ars, "seo") THEN SeoAdvice ELSE <<>>)
        \o (IF AnyFinding(ars, "accessibility")
              THEN AccessibilityAdvice ELSE <<>>)
        \o (IF SlowOnAverage(ls)
              THEN <<Autoscale(sc.servers, sc.scaled_avg)>>
                      \o InfrastructureAdvice
              ELSE <<CapacityOkay>>)
        \o GeneralAdvice

\* list(set(recs)): the elements in whatever order the set gives them
RECURSIVE SetToList(_)
SetToList(S) ==
    IF S = {}
      THEN <<>>
      ELSE LET x == CHOOSE y \in S : TRUE
           IN  <<x>> \o SetToList(S \ {x})

\* for r in recs: if r not in seen: deduped.append(r); seen.add(r)
RECURSIVE DedupeLoop(_, _, _)
DedupeLoop(rest, seen, out) ==
    IF rest = <<>>
      THEN out
      ELSE IF Head(rest) \in seen
             THEN DedupeLoop(Tail(rest), seen, out)
             ELSE DedupeLoop(Tail(rest), seen \cup {Head(rest)},
                             Append(out, Head(rest)))

Dedupe_ViaSet(rs) == SetToList(Range(rs))

Dedupe(rs) == DedupeLoop(rs, {}, <<>>)

\* The rules of build_recommendations, up to the general-quality pair
BuildRecs ==
    /\ rec_pc = "ready"
    /\ recs' = EmittedAdvice(audit_results, summary, scaled)
    /\ rec_pc' = "built"
    /\ UNCHANGED <<audit_results, deduped>>
    /\ UNCHANGED <<crawl_vars, load_vars, summ_vars, scale_vars, audit_vars>>

\* The dedupe loop and the return
DedupeRecs ==
    /\ rec_pc = "built"
    /\ deduped' = Dedupe(recs)
    /\ rec_pc' = "done"
    /\ UNCHANGED <<audit_results, recs>>
    /\ UNCHANGED <<crawl_vars, load_vars, summ_vars, scale_vars, audit_vars>>

RecNext == BuildRecs \/ DedupeRecs

\* The finding lists of an audit record: what build_recommendations reads
FindingLists == {<<>>, <<"finding">>}

FindingRecords ==
    [security : FindingLists, seo : FindingLists, accessibility : FindingLists]

\* The avg of the load summary, None or in milliseconds
SummaryAvgs == {None, Some(0), Some(1499), Some(1500), Some(1501), Some(3000)}

ScaleEstimates ==
    [servers : {1, 2}, scaled_avg : {None, Some(1500)}, processed : {0},
     failed : {0}]

\* Any list of at most MaxRecords audit records, any avg and any estimate
InitRecs ==
    /\ CrawlIdle /\ LoadIdle /\ AuditIdle
    /\ summ_pc = "done"
    /\ samples = <<>>
    /\ summary \in {[NoSummary EXCEPT !.avg = a] : a \in SummaryAvgs}
    /\ scale_pc = "done"
    /\ avg_time = summary.avg
    /\ target = TARGET
    /\ load_summary = [total |-> 0, success |-> 0, failures |-> 0]
    /\ scaled \in ScaleEstimates
    /\ rec_pc = "ready"
    /\ audit_results \in SeqUpTo(FindingRecords, MaxRecords)
    /\ recs = <<>>
    /\ deduped = <<>>

SpecRecs == InitRecs /\ [][RecNext]_vars

(***************************************************************************)
(* Properties of analyze_page                                              *)
(***************************************************************************)

\* C14: when the fetch of the page raises, fetch_page hands back (None,
\* None, str(e)) and the record has status Error, an error string that is
\* not empty, no load time and no security, SEO or accessibility finding.
C14_FailedFetchRecord ==
    (audit_pc = "done" /\ fetch_outcome.kind = "raises") =>
        /\ fetch_page(fetch_outcome).r = NoResponse
        /\ fetch_page(fetch_outcome).elapsed = <<>>
        /\ fetch_page(fetch_outcome).err = <<fetch_outcome.message>>
        /\ result.url = page_url
        /\ result.status = "Error"
        /\ result.error \notin {"", "<none>"}
        /\ result.load_time = <<>>
        /\ result.security = <<>>
        /\ result.seo = <<>>
        /\ result.accessibility = <<>>

\* The record of a plain-HTTP page whose fetch raised an exception with an
\* empty message.
C14_Witness ==
    /\ audit_pc = "done"
    /\ fetch_outcome.kind = "raises"
    /\ fetch_outcome.message = ""
    /\ page_url.prefix = "http://"
    /\ result.status = "Error"
    /\ result.error = "Fetch error"

\* C15: the security findings of a fetched page are the scheme finding when
\* the URL's scheme is not https, then the headers of SECURITY_HEADERS
\* missing from the response, in that order; a page served over http
\* without any of the four headers has exactly 5.
C15_SecurityFindings ==
    (audit_pc = "done" /\ fetch_outcome.kind = "response") =>
        LET H == <<"Content-Security-Policy", "Strict-Transport-Security",
                   "X-Frame-Options", "X-Content-Type-Options">>
            missing == SelectSeq(H, LAMBDA h : h \notin fetch_outcome.headers)
            scheme == IF Scheme(page_url) # "https"
                        THEN <<"Site is not using HTTPS">> ELSE <<>>
        IN  /\ result.security = scheme \o missing
            /\ (Scheme(page_url) = "http" /\ fetch_outcome.headers = {})
                  => Len(result.security) = 5

(***************************************************************************)
(* Properties of build_recommendations                                     *)
(***************************************************************************)

\* C13: the returned list holds no advisory twice, holds exactly the
\* advisories that were emitted, and holds them in the order of their first
\* occurrence among the emitted ones.
C13_NoDuplicates ==
    rec_pc = "done" =>
        LET First(x) ==
                CHOOSE i \in 1..Len(recs) :
                    recs[i] = x /\ \A k \in 1..(i - 1) : recs[k] # x
        IN  /\ \A i, j \in 1..Len(deduped) :
                  deduped[i] = deduped[j] => i = j
            /\ {deduped[i] : i \in 1..Len(deduped)}
                  = {recs[i] : i \in 1..Len(recs)}
            /\ \A i, j \in 1..Len(deduped) :
                  i < j => First(deduped[i]) < First(deduped[j])

\* Advice on two records that both have security, SEO and accessibility
\* findings: each pair is in the list once.
C13_Witness ==
    /\ rec_pc = "done"
    /\ Len(audit_results) = 2
    /\ \A i \in 1..2 :
          /\ audit_results[i].security # <<>>
          /\ audit_results[i].seo # <<>>
          /\ audit_results[i].accessibility # <<>>
    /\ Cardinality({i \in 1..Len(deduped) : deduped[i] = SecurityAdvice[1]}) = 1
    /\ Len(deduped) >= 9

\* C19: the returned list is the security pair if any record has a security
\* finding, then the SEO pair, the accessibility pair, the performance
\* block and the general-quality pair; the performance block is the
\* autoscale advisory with the 4 infrastructure advisories when avg is
\* defined and > 1.5 s, and the "capacity looks okay" string otherwise.
C19_RuleOrder ==
    rec_pc = "done" =>
        LET any(f) == \E i \in 1..Len(audit_results) :
                          Len(audit_results[i][f]) > 0
            slow == summary.avg # <<>> /\ summary.avg[1] > 1500
            auto == Autoscale(scaled.servers, scaled.scaled_avg)
            n == Len(deduped)
            has(x) == \E i \in 1..n : deduped[i] = x
        IN  /\ deduped =
                  (IF any("security") THEN SecurityAdvice ELSE <<>>)
                    \o (IF any("seo") THEN SeoAdvice ELSE <<>>)
                    \o (IF any("accessibility")
                          THEN AccessibilityAdvice ELSE <<>>)
                    \o (IF slow THEN <<auto>> \o InfrastructureAdvice
                                ELSE <<CapacityOkay>>)
                    \o GeneralAdvice
            /\ has(auto) = slow
            /\ has(CapacityOkay) = ~slow
            /\ \A k \in 1..4 : has(InfrastructureAdvice[k]) = slow
            /\ n >= 3
            /\ <<deduped[n - 1], deduped[n]>> = GeneralAdvice

\* Advice for a slow site (avg 3 s) whose pages have only accessibility
\* findings: 9 advisories, the third the autoscale one.
C19_Witness ==
    /\ rec_pc = "done"
    /\ summary.avg = Some(3000)
    /\ Len(deduped) = 9
    /\ deduped[1] = AccessibilityAdvice[1]
    /\ deduped[3] = Autoscale(scaled.servers, scaled.scaled_avg)
    /\ scaled.servers = 2

(***************************************************************************)
(* Properties of summarize_load_results and auto_scale                     *)
(***************************************************************************)

\* The sum of the counts of a Counter
RECURSIVE CounterTotal(_)
CounterTotal(c) ==
    IF DOMAIN c = {}
      THEN 0
      ELSE LET k == CHOOSE x \in DOMAIN c : TRUE
           IN  c[k] + CounterTotal([x \in DOMAIN c \ {k} |-> c[x]])

\* C8: the summary has total = number of samples, success = number of
\* samples whose status is exactly 200, failures = total - success = number
\* of samples with any other status, the Error marker included.
C8_Counts ==
    summ_pc = "done" =>
        LET idx == 1..Len(samples)
        IN  /\ summary.total = Len(samples)
            /\ summary.success =
                  Cardinality({i \in idx : samples[i].status = "200"})
            /\ summary.failures =
                  Cardinality({i \in idx : samples[i].status # "200"})
            /\ summary.success + summary.failures = summary.total
            /\ summary.failures >=
                  Cardinality({i \in idx : samples[i].status = "Error"})

\* A summary of a 200, a 404 and an Error sample: one success, two failures.
C8_Witness ==
    /\ summ_pc = "done"
    /\ Len(samples) = 3
    /\ {samples[i].status : i \in 1..3} = {"200", "404", "Error"}
    /\ summary.success = 1
    /\ summary.failures = 2

\* C9: the histogram's keys are the 0.1 s buckets floor(t*10)/10 of the
\* non-null times, each with the number of times in it, so its counts sum
\* to the number of samples with a time; times 0.12, 0.15, 0.27 give
\* {0.1: 2, 0.2: 1}.
C9_Histogram ==
    summ_pc = "done" =>
        LET timed == {i \in 1..Len(samples) : samples[i].time # None}
            t(i) == samples[i].time[1]
            floor(i) == t(i) - (t(i) % 100)
            h == summary.histogram
        IN  /\ DOMAIN h = {floor(i) : i \in timed}
            /\ \A k \in DOMAIN h :
                  h[k] = Cardinality({i \in timed : floor(i) = k})
            /\ CounterTotal(h) = Cardinality(timed)
            /\ [i \in 1..Len(samples) |-> samples[i].time]
                    = <<Some(120), Some(150), Some(270)>>
                  => /\ DOMAIN h = {100, 200}
                     /\ h[100] = 2
                     /\ h[200] = 1

\* A summary of times 0.15 s and 0.12 s and one sample without a time: one
\* bucket, 0.1, holding 2.
C9_Witness ==
    /\ summ_pc = "done"
    /\ Len(samples) = 3
    /\ samples[1].time = Some(150)
    /\ samples[2].time = None
    /\ samples[3].time = Some(120)
    /\ DOMAIN summary.histogram = {100}
    /\ summary.histogram[100] = 2

\* C10: the servers auto_scale returns is an integer >= 1, for avg None,
\* negative, zero or positive, every positive target and every summary.
C10_ServersAtLeastOne ==
    scale_pc = "done" => scaled.servers \in Nat /\ scaled.servers >= 1

\* auto_scale returned from its scaled branch with a positive avg below the
\* target.
C10_Witness ==
    /\ scale_pc = "done"
    /\ avg_time = Some(1)
    /\ target = 1500
    /\ scaled.servers = 1
    /\ scaled.processed = load_summary.total

C21_FewestServers ==
    (scale_pc = "done" /\ avg_time # <<>> /\ avg_time[1] > 0 /\ target > 0) =>
        /\ scaled.servers >= 1
        /\ avg_time[1] <= scaled.servers * target
        /\ \A s \in 1..(scaled.servers - 1) : avg_time[1] > s * target

\* C22: for a summary with success + failures = total, the estimate has
\* processed + failed = total, in the degenerate branch and in the scaled
\* one.
C22_RequestsConserved ==
    (scale_pc = "done"
        /\ load_summary.success + load_summary.failures = load_summary.total)
            => scaled.processed + scaled.failed = load_summary.total

\* Both branches on a summary of 1 success and 1 failure: the degenerate
\* one keeps the failure, the scaled one counts both requests as processed.
C22_Witness ==
    /\ scale_pc = "done"
    /\ load_summary = [total |-> 2, success |-> 1, failures |-> 1]
    /\ \/ avg_time = <<>> /\ scaled.processed = 1 /\ scaled.failed = 1
       \/ avg_time = <<3000>> /\ scaled.processed = 2 /\ scaled.failed = 0

\* C12: with n >= 1 timed samples p95 is the element of rank
\* floor(0.95*(n-1)), counted from 0, of the times in ascending order, and
\* avg is the millisecond nearest to their mean; with no timed sample both
\* are None.  Times 1, 2, 3, 4, 5 s give avg 3.0 s and p95 4 s.
C12_AvgAndP95 ==
    summ_pc = "done" =>
        LET timed == {i \in 1..Len(samples) : samples[i].time # <<>>}
            t(i) == samples[i].time[1]
            n == Cardinality(timed)
            k == (95 * (n - 1)) \div 100
            total[i \in 0..Len(samples)] ==
                IF i = 0 THEN 0
                ELSE total[i - 1] + (IF i \in timed THEN t(i) ELSE 0)
        IN  IF n = 0
              THEN summary.avg = <<>> /\ summary.p95 = <<>>
              ELSE /\ summary.p95 # <<>>
                   /\ \E i \in timed : t(i) = summary.p95[1]
                   /\ Cardinality({i \in timed : t(i) < summary.p95[1]}) <= k
                   /\ Cardinality({i \in timed : t(i) <= summary.p95[1]}) > k
                   /\ summary.avg # <<>>
                   /\ 2 * (summary.avg[1] * n - total[Len(samples)]) <= n
                   /\ 2 * (total[Len(samples)] - summary.avg[1] * n) <= n
                   /\ [i \in 1..Len(samples) |-> samples[i].time]
                           = <<<<1000>>, <<2000>>, <<3000>>, <<4000>>, <<5000>>>>
                         => /\ summary.avg = <<3000>>
                            /\ summary.p95 = <<4000>>

\* The summary of five samples with times 5, 1, 4, 2, 3 s, out of order:
\* avg 3.0 s and p95 4 s.
C12_Witness ==
    /\ summ_pc = "done"
    /\ [i \in 1..Len(samples) |-> samples[i].time]
          = <<Some(5000), Some(1000), Some(4000), Some(2000), Some(3000)>>
    /\ summary.avg = Some(3000)
    /\ summary.p95 = Some(4000)

(***************************************************************************)
(* Properties of run_load_test                                             *)
(***************************************************************************)

\* C2: waves are separated by a barrier: whenever a worker starts, the sample
\* of every worker of every earlier wave is already in the results, and the
\* only workers started and not yet collected are those of its own wave.
C2_WaveBarrier ==
    [][inflight' > inflight =>
          /\ Count(load_results) = users - remaining
          /\ inflight + Count(finished) = futs]_vars

\* A worker of a second wave in flight while another of that wave has
\* already returned.
C2_Witness ==
    /\ Len(wave_sizes) >= 2
    /\ inflight > 0
    /\ Count(finished) > 0

\* C3: a load test of n users has run w waves with 300*(w-1) < n <= 300*w,
\* all of 300 workers but the last, which has n - 300*(w-1), and returns
\* exactly n samples, one per request, failed ones included (n = 700 runs
\* waves of 300, 300, 100).
C3_WavesAndSamples ==
    load_pc = "done" =>
        LET w == Len(wave_sizes)
        IN  /\ batch_size * (w - 1) < users
            /\ users <= batch_size * w
            /\ \A i \in 1..(w - 1) : wave_sizes[i] = batch_size
            /\ wave_sizes[w] = users - batch_size * (w - 1)
            /\ users = 700 => wave_sizes = <<300, 300, 100>>
            /\ Count(load_results) = users
            /\ inflight = 0
            /\ Count(finished) = 0

\* A finished load test of 700 users in which a request failed.
C3_Witness ==
    /\ load_pc = "done"
    /\ users = 700
    /\ load_results["error"] >= 1
    /\ load_results["response"] >= 1

\* C4: at most batch_size requests are in flight at any moment.
C4_InFlightBounded == inflight <= batch_size

\* The third wave of a load test of 700 users with all its workers in flight
\* after a wave that had 300 in flight.
C4_Witness ==
    /\ users = 700
    /\ wave_sizes = <<300, 300, 100>>
    /\ inflight = 100

(***************************************************************************)
(* Properties of crawl_site                                                *)
(***************************************************************************)
ResultUrls == {results[i].url : i \in 1..Len(results)}

\* C1: in every state of a crawl |visited| <= max_pages, the result list
\* holds at most max_pages records, and no URL has two records in it.
C1_CrawlBounded ==
    /\ Cardinality(visited) <= max_pages
    /\ Len(results) <= max_pages
    /\ \A i, j \in 1..Len(results) :
          results[i].url = results[j].url => i = j

\* A crawl that returned max_pages >= 2 records with the frontier not empty:
\* the page limit, not the link graph, ended it.
C1_Witness ==
    /\ crawl_pc = "done"
    /\ max_pages >= 2
    /\ Len(results) = max_pages
    /\ queue # <<>>

C6_VisitedCanonical ==
    \A u \in visited \cup ResultUrls : u.frag = NoFrag

\* C7: the crawl terminates, and when it has returned the frontier is empty
\* or |visited| = max_pages.
C7_Termination ==
    /\ <>(crawl_pc = "done")
    /\ [](crawl_pc = "done" =>
            (queue = <<>> \/ Cardinality(visited) = max_pages))

\* A crawl that returned because the frontier ran empty below the limit.
C7_Witness ==
    /\ crawl_pc = "done"
    /\ queue = <<>>
    /\ Cardinality(visited) >= 2
    /\ Cardinality(visited) < max_pages

\* The URLs of the audit records, in the order of the records
ResultUrlSeq == [i \in 1..Len(results) |-> results[i].url]

\* C16: the frontier holds no URL twice and no visited URL, so the "already
\* visited" guard never fires: every pass of the loop takes a URL that is
\* not in visited and adds exactly that one to visited.
C16_FrontierFresh ==
    /\ [](\A i, j \in 1..Len(queue) : queue[i] = queue[j] => i = j)
    /\ [](\A i \in 1..Len(queue) : queue[i] \notin visited)
    /\ [][(crawl_pc = "loop" /\ crawl_pc' # "done") =>
            /\ crawl_pc' = "audit"
            /\ url' = queue[1]
            /\ url' \notin visited
            /\ visited' = visited \cup {url'}
            /\ Cardinality(visited') = Cardinality(visited) + 1]_vars

\* Three passes done, each of a new URL, and a frontier that is not empty
\* yet.
C16_Witness ==
    /\ crawl_pc = "loop"
    /\ max_pages = 4
    /\ Len(results) = 3
    /\ Cardinality(visited) = 3
    /\ queue # <<>>

\* C17: start_url is the first record and the records are in non-decreasing
\* link distance from start_url.  The distance of a URL is the level the
\* history gave it when it was first read; no later anchor lowers a level,
\* so it is the fewest links from start_url over all the anchors read.
C17_BreadthFirst ==
    /\ [](results # <<>> => results[1].url = start_url)
    /\ [](\A i, j \in 1..Len(results) :
            i < j => found[results[i].url].level <= found[results[j].url].level)
    /\ [][\A x \in DOMAIN found : found'[x] = found[x]]_vars

\* Four records at distances 0, 1, 1, 2.
C17_Witness ==
    /\ crawl_pc = "done"
    /\ Len(results) = 4
    /\ found[results[1].url].level = 0
    /\ found[results[2].url].level = 1
    /\ found[results[3].url].level = 1
    /\ found[results[4].url].level = 2

\* C18: every URL taken from the frontier gets one record, appended right
\* after it is taken and whatever its fetch did, and no URL gets two; a
\* link-extraction fetch that raises or answers another status than 200
\* leaves the frontier as it was and goes back to the loop, where the head
\* of a non-empty frontier is processed next while the limit is not reached.
C18_FailuresSwallowed ==
    /\ [](Len(results) =
            Cardinality(visited) - (IF crawl_pc = "audit" THEN 1 ELSE 0))
    /\ [](\A i, j \in 1..Len(results) :
            results[i].url = results[j].url => i = j)
    /\ [][crawl_pc = "audit" =>
            /\ crawl_pc' = "extract"
            /\ Len(results') = Len(results) + 1
            /\ SubSeq(results', 1, Len(results)) = results
            /\ results'[Len(results')].url = url
            /\ results'[Len(results')].status \in {"200", "Error"}]_vars
    /\ [][(crawl_pc = "extract" /\ crawl_pc' # "links") =>
            (crawl_pc' = "loop" /\ queue' = queue /\ results' = results
                /\ visited' = visited)]_vars
    /\ [][(crawl_pc = "loop" /\ queue # <<>>
                /\ Cardinality(visited) < max_pages) =>
            (crawl_pc' = "audit" /\ url' = queue[1]
                /\ queue' = SubSeq(queue, 2, Len(queue)))]_vars

\* The first page failed its audit fetch, a link-extraction fetch answered
\* 404 after that, and the crawl is auditing a third URL.
C18_Witness ==
    /\ crawl_pc = "audit"
    /\ r = "404"
    /\ Cardinality(visited) = 3
    /\ Len(results) = 2
    /\ results[1].status = "Error"

\* C20: every record but that of start_url is of a URL read as a link on a
\* page of an earlier record, and links are read only in the anchor loop of
\* the page being processed, after its link-extraction fetch answered 200.
C20_HasPredecessor ==
    /\ [](\A i \in 1..Len(results) :
            results[i].url # start_url =>
                \E j \in 1..(i - 1) :
                    found[results[i].url].on = results[j].url)
    /\ [][(crawl_pc # "idle" /\ (found' # found \/ Len(queue') > Len(queue)))
            => /\ r = "200"
               /\ crawl_pc = "links"
               /\ InSeq(url, ResultUrlSeq)
               /\ \A x \in DOMAIN found' :
                     (x \notin DOMAIN found \/ found'[x] # found[x])
                        => found'[x].on = url
               /\ Len(queue') > Len(queue)
                     => queue'[Len(queue')] \in DOMAIN found']_vars

\* A chain: the third record was read on the page of the second, and the
\* second on start_url.
C20_Witness ==
    /\ crawl_pc = "done"
    /\ Len(results) = 3
    /\ found[results[3].url].on = results[2].url
    /\ found[results[2].url].on = results[1].url
    /\ results[1].url = start_url

====
